---- MODULE Spec2Model ----
(***************************************************************************)
(* Buffer pool manager, LRU-K replacer and disk access of BusTub           *)
(* (src/buffer/buffer_pool_manager.cpp, src/buffer/lru_k_replacer.cpp,     *)
(* src/storage/disk/disk_scheduler.cpp).                                   *)
(*                                                                         *)
(* Every public pool operation runs under the pool latch and waits for its *)
(* disk requests synchronously (success.get()), so each operation is one   *)
(* atomic action.  A process that has aborted (failed BUSTUB_ASSERT, wild   *)
(* write) or whose only thread is blocked for ever takes no further step.  *)
(***************************************************************************)
EXTENDS Integers, Sequences, FiniteSets, TLC

\* ---------------------------------------------------------------- bounds
MaxPoolSize == 2    \* the pool is built with 1 .. MaxPoolSize frames
MaxPage == 3        \* page ids 0 .. MaxPage-1 are allocated or fetched
MaxTime == 5        \* accesses recorded by the replacer
MaxByte == 1        \* a frame's contents are one value of 0 .. MaxByte
ShortTime == 2      \* accesses recorded in the short runs of SpecShort
MaxReplacerSize == 3 \* a replacer alone is built with 1 .. MaxReplacerSize frames
MaxK == 2           \* and with k_ in 1 .. MaxK
MaxAccess == 4      \* accesses recorded by a replacer alone
MaxThreads == 2     \* threads that call one replacer
ThreadAccess == 2   \* accesses recorded by a replacer that threads share
MaxRequests == 2    \* requests scheduled on a disk scheduler alone

\* ------------------------------------------------------------- constants
replacer_k == 2
INVALID_PAGE_ID == -1
NoFrame == -1       \* page_table_.find(p) == page_table_.end()

PageIds == 0 .. (MaxPage - 1)
FrameIds == 0 .. (MaxReplacerSize - 1)  \* the frame ids a replacer is called with
Bytes == 0 .. MaxByte

VARIABLES
  pool_size,     \* pool_size_, the number of frames
  pages,         \* pages_[f]: page_id, pin_count, is_dirty, data
  page_table,    \* page_table_: page id -> frame id, NoFrame when absent
  free_list,     \* free_list_
  next_page_id,  \* next_page_id_
  replacer,      \* replacer_: node_list, curr_size, current_timestamp
  disk,          \* the block device: page id -> contents
  proc,          \* "running", "aborted" or "deadlocked"
  op,            \* the last call: its name and what it returned
  round_trip,    \* per page id: contents at the last dirty unpin
  k_,            \* k_ of the replacer
  scheduler,     \* the disk scheduler: request_queue_, worker, promises
  threads        \* threads inside the replacer: latch_ and their positions

vars == <<pool_size, pages, page_table, free_list, next_page_id, replacer,
          disk, proc, op, round_trip, k_, scheduler, threads>>

Frames == 0 .. (pool_size - 1)
replacer_size == pool_size      \* replacer_ is built with pool_size frames

\* ------------------------------------------------------------ LRU-K node
\* LRUKNode: history holds at most k timestamps, oldest first.
PushHistory(hist, ts) ==
  IF Len(hist) >= k_ THEN Append(Tail(hist), ts) ELSE Append(hist, ts)

NewNode(frame_id, ts) ==
  [fid |-> frame_id, hist |-> <<ts>>, evictable |-> FALSE]

\* operator< of LRUKNode: a comes before b in eviction order.
NodeLess(a, b) ==
  IF Len(a.hist) < k_
  THEN IF Len(b.hist) < k_ THEN a.hist[1] < b.hist[1] ELSE TRUE
  ELSE IF Len(b.hist) < k_ THEN FALSE ELSE a.hist[1] < b.hist[1]

\* node_store_.find(frame_id): the node's position in node_list_, 0 = end().
NodeIndex(list, frame_id) ==
  IF \E i \in 1 .. Len(list) : list[i].fid = frame_id
  THEN CHOOSE i \in 1 .. Len(list) : list[i].fid = frame_id
  ELSE 0

InsertAt(list, pos, node) ==
  SubSeq(list, 1, pos - 1) \o <<node>> \o SubSeq(list, pos, Len(list))

RemoveAt(list, pos) ==
  SubSeq(list, 1, pos - 1) \o SubSeq(list, pos + 1, Len(list))

\* Insert without the walk of lines 91-93
InsertPosNoWalk(list, start, node) == start

\* LRUKReplacer::Insert: walk from start while *start < node; the position
\* the node is inserted before.
InsertPos(list, start, node) ==
  IF \E i \in start .. Len(list) : ~NodeLess(list[i], node)
  THEN CHOOSE i \in start .. Len(list) :
         /\ ~NodeLess(list[i], node)
         /\ \A j \in start .. (i - 1) : NodeLess(list[j], node)
  ELSE Len(list) + 1

\* LRUKReplacer::Evict: the first evictable node, 0 when there is none.
EvictIndex(list) ==
  IF \E i \in 1 .. Len(list) : list[i].evictable
  THEN CHOOSE i \in 1 .. Len(list) :
         /\ list[i].evictable
         /\ \A j \in 1 .. (i - 1) : ~list[j].evictable
  ELSE 0

Evict(rep) ==
  LET i == EvictIndex(rep.node_list)
  IN [rep EXCEPT !.node_list = RemoveAt(@, i), !.curr_size = @ - 1]

\* RecordAccess that pushes the timestamp and leaves a tracked node where it is
RecordAccessNoReposition(rep, frame_id) ==
  LET list == rep.node_list
      idx == NodeIndex(list, frame_id)
      ts == rep.current_timestamp
  IN IF idx = 0
     THEN LET node == NewNode(frame_id, ts)
          IN {[rep EXCEPT !.node_list = InsertAt(list, InsertPos(list, 1, node), node),
                          !.current_timestamp = ts + 1]}
     ELSE {[rep EXCEPT !.node_list[idx].hist = PushHistory(@, ts),
                       !.current_timestamp = ts + 1]}

\* LRUKReplacer::RecordAccess up to the overflow test.  The node of a tracked
\* frame is moved from before Insert compares it with its successor: the
\* moved-from node has an empty history, so it is less than a node with k
\* entries, and the comparison with a node of fewer entries reads the front
\* of an empty list (either answer).
RecordAccessSet(rep, frame_id) ==
  LET list == rep.node_list
      idx == NodeIndex(list, frame_id)
      ts == rep.current_timestamp
  IN IF idx = 0
     THEN LET node == NewNode(frame_id, ts)
          IN {[rep EXCEPT !.node_list = InsertAt(list, InsertPos(list, 1, node), node),
                          !.current_timestamp = ts + 1]}
     ELSE LET node == [list[idx] EXCEPT !.hist = PushHistory(@, ts)]
              skips == IF Len(node.hist) >= k_ THEN {TRUE} ELSE BOOLEAN
          IN {[rep EXCEPT
                 !.node_list =
                    IF skip
                    THEN RemoveAt(InsertAt(list, InsertPos(list, idx + 1, node), node), idx)
                    ELSE [list EXCEPT ![idx] = node],
                 !.current_timestamp = ts + 1] : skip \in skips}

\* RecordAccess line 53: more nodes than replacer_size_ makes it call Evict
\* with latch_ held; Evict locks latch_ again and the call does not return.
RecordAccessOverflows(rep, frame_id) ==
  Len(rep.node_list) + (IF NodeIndex(rep.node_list, frame_id) = 0 THEN 1 ELSE 0)
    > replacer_size

\* SetEvictable without the test of `before` at line 66
SetEvictableNoBefore(rep, frame_id, set_evictable) ==
  LET idx == NodeIndex(rep.node_list, frame_id)
  IN IF idx = 0 THEN rep
     ELSE LET before == rep.node_list[idx].evictable
          IN [rep EXCEPT
                !.node_list[idx].evictable = set_evictable,
                !.curr_size = IF set_evictable THEN @ + 1
                              ELSE IF before THEN @ - 1 ELSE @]

\* LRUKReplacer::SetEvictable
SetEvictable(rep, frame_id, set_evictable) ==
  LET idx == NodeIndex(rep.node_list, frame_id)
  IN IF idx = 0 THEN rep
     ELSE LET before == rep.node_list[idx].evictable
          IN [rep EXCEPT
                !.node_list[idx].evictable = set_evictable,
                !.curr_size = IF ~before /\ set_evictable THEN @ + 1
                              ELSE IF before /\ ~set_evictable THEN @ - 1 ELSE @]

\* LRUKReplacer::Remove: BUSTUB_ASSERT(IsEvictable()) on a tracked frame.
RemoveAsserts(rep, frame_id) ==
  LET idx == NodeIndex(rep.node_list, frame_id)
  IN idx # 0 /\ ~rep.node_list[idx].evictable

Remove(rep, frame_id) ==
  LET idx == NodeIndex(rep.node_list, frame_id)
  IN IF idx = 0 THEN rep
     ELSE [rep EXCEPT !.node_list = RemoveAt(@, idx), !.curr_size = @ - 1]

IsEvictable(rep, frame_id) ==
  LET idx == NodeIndex(rep.node_list, frame_id)
  IN idx # 0 /\ rep.node_list[idx].evictable

\* ------------------------------------------------------------ pool helpers
Resident(pt, page_id) == pt[page_id] # NoFrame

\* page_table_.erase(key); erasing an absent key (INVALID_PAGE_ID too) is a no-op
Erase(pt, key) == [p \in PageIds |-> IF p = key THEN NoFrame ELSE pt[p]]

\* BufferPoolManager::ResetPage, then the caller's pin_count_ = pin
ResetPage(pgs, frame_id, page_id, pin) ==
  [pgs EXCEPT ![frame_id] =
     [page_id |-> page_id, pin_count |-> pin, is_dirty |-> FALSE, data |-> 0]]

\* BufferPoolManager::WritePageToDisk: the worker writes page.data_ under
\* page.page_id_ and the caller waits for it.
WritePageToDisk(d, page) ==
  IF page.page_id \in PageIds THEN [d EXCEPT ![page.page_id] = page.data] ELSE d

WriteIfDirty(d, page) == IF page.is_dirty THEN WritePageToDisk(d, page) ELSE d

\* BufferPoolManager::ReadPageFromDisk into frame_id, under its page_id_
ReadPageFromDisk(pgs, frame_id, d) ==
  [pgs EXCEPT ![frame_id].data = d[pgs[frame_id].page_id]]

\* What a call returned: ret is "frame", "null", "true" or "false", frame the
\* frame handed out, victim the frame replacer_->Evict chose for it.
Call(name, ret, frame, victim) ==
  [name |-> name, ret |-> ret, frame |-> frame, victim |-> victim]

\* A call that does not return: the process is gone or its thread is stuck.
Halt(kind, name) ==
  /\ proc' = kind
  /\ op' = Call(name, kind, NoFrame, NoFrame)

\* A thread that locks a std::mutex it owns: the behaviour is undefined.  The
\* thread blocks for ever, or the library detects the relock and the
\* uncaught std::system_error ends the process.
RelockOutcomes == {"deadlocked", "aborted"}

NoTrip == [stage |-> "none", bytes |-> 0]

\* the pages whose frame is evicted move from "unpinned" to "evicted"
TripEvicted(rt, pt, victim) ==
  [p \in PageIds |->
     IF pt[p] = victim /\ rt[p].stage = "unpinned"
     THEN [rt[p] EXCEPT !.stage = "evicted"] ELSE rt[p]]

\* ------------------------------------------------------------------- Init
\* A scheduler whose worker has not taken a request, no thread in the replacer.
NoScheduler ==
  [queue |-> <<>>, worker |-> "get", current |-> 0, requests |-> <<>>,
   performed |-> <<>>, fired |-> <<>>, destructor |-> "alive"]

NoThreads == [latch |-> 0, pc |-> <<>>, arg |-> <<>>, loaded |-> <<>>]

\* What the pool's operations leave alone: the replacer's k_, the scheduler
\* behind WritePageToDisk and ReadPageFromDisk, the threads of other callers.
Apart == <<k_, scheduler, threads>>

\* BufferPoolManager's constructor, the members as it leaves them
InitPool ==
  /\ pages = [f \in Frames |->
       [page_id |-> INVALID_PAGE_ID, pin_count |-> 0, is_dirty |-> FALSE, data |-> 0]]
  /\ page_table = [p \in PageIds |-> NoFrame]
  /\ free_list = [i \in 1 .. pool_size |-> i - 1]
  /\ next_page_id = 0
  /\ replacer = [node_list |-> <<>>, curr_size |-> 0, current_timestamp |-> 0]
  /\ disk = [p \in PageIds |-> 0]
  /\ proc = "running"
  /\ op = Call("Init", "none", NoFrame, NoFrame)
  /\ round_trip = [p \in PageIds |-> NoTrip]

Init ==
  /\ pool_size \in 1 .. MaxPoolSize
  /\ k_ = replacer_k
  /\ InitPool
  /\ scheduler = NoScheduler
  /\ threads = NoThreads

Open == proc = "running"
CanRecord == replacer.current_timestamp < MaxTime
CanAllocate == next_page_id < MaxPage

\* --------------------------------------------------------------- NewPage
\* Line 44 writes pages_[*page_id].page_id_: the frame array indexed by the
\* page id.  Inside the array it overwrites that frame's page_id_; past its
\* end it is a wild write, which lands in memory this model does not hold
\* ("stray") or ends the process ("crash").
WildWriteOutcomes(page_id) ==
  IF page_id \in Frames THEN {"inside"} ELSE {"stray", "crash"}

PagesAfterLine44(pgs, page_id) ==
  IF page_id \in Frames THEN [pgs EXCEPT ![page_id].page_id = page_id] ELSE pgs

\* lines 38-48: a frame from the free list
NewPageFree ==
  LET frame_id == Head(free_list)
      page_id == next_page_id
  IN IF RecordAccessOverflows(replacer, frame_id)
     THEN /\ \E kind \in RelockOutcomes : Halt(kind, "NewPage")
          /\ UNCHANGED <<pages, page_table, free_list, next_page_id, replacer,
                         disk>>
     ELSE \E rep \in RecordAccessSet(replacer, frame_id) :
          \E wild \in WildWriteOutcomes(page_id) :
            IF wild = "crash"
            THEN /\ Halt("aborted", "NewPage")
                 /\ UNCHANGED <<pages, page_table, free_list, next_page_id,
                                replacer, disk>>
            ELSE /\ free_list' = Tail(free_list)
                 /\ replacer' = rep
                 /\ next_page_id' = next_page_id + 1
                 /\ page_table' = [page_table EXCEPT ![page_id] = frame_id]
                 /\ pages' = ResetPage(PagesAfterLine44(pages, page_id),
                                       frame_id, page_id, 1)
                 /\ op' = Call("NewPage", "frame", frame_id, NoFrame)
                 /\ UNCHANGED <<disk, proc>>

\* lines 49-66: a victim from the replacer
NewPageEvict ==
  LET i == EvictIndex(replacer.node_list)
      replaced_frame == replacer.node_list[i].fid
      page == pages[replaced_frame]
      page_id == next_page_id
      rep1 == Evict(replacer)
  IN IF RecordAccessOverflows(rep1, replaced_frame)
     THEN /\ \E kind \in RelockOutcomes : Halt(kind, "NewPage")
          /\ UNCHANGED <<pages, page_table, free_list, next_page_id, replacer,
                         disk>>
     ELSE \E rep \in RecordAccessSet(rep1, replaced_frame) :
            /\ disk' = WriteIfDirty(disk, page)
            /\ next_page_id' = next_page_id + 1
            /\ page_table' = [Erase(page_table, page.page_id) EXCEPT
                                ![page_id] = replaced_frame]
            /\ pages' = ResetPage(pages, replaced_frame, page_id, 1)
            /\ replacer' = rep
            /\ op' = Call("NewPage", "frame", replaced_frame,
                          replaced_frame)
            /\ UNCHANGED <<free_list, proc>>

\* line 67
NewPageFail ==
  /\ op' = Call("NewPage", "null", NoFrame, NoFrame)
  /\ UNCHANGED <<pages, page_table, free_list, next_page_id, replacer, disk,
                 proc>>

NewPage ==
  /\ Open
  /\ IF free_list # <<>> THEN CanAllocate /\ CanRecord /\ NewPageFree
     ELSE IF EvictIndex(replacer.node_list) # 0
          THEN CanAllocate /\ CanRecord /\ NewPageEvict
     ELSE NewPageFail

\* ------------------------------------------------------------- FetchPage
\* lines 72-76: the page is resident
FetchPageHit(page_id) ==
  LET frame_id == page_table[page_id]
  IN IF RecordAccessOverflows(replacer, frame_id)
     THEN /\ \E kind \in RelockOutcomes : Halt(kind, "FetchPage")
          /\ UNCHANGED <<pages, page_table, free_list, next_page_id, replacer,
                         disk>>
     ELSE \E rep \in RecordAccessSet(replacer, frame_id) :
            /\ replacer' = rep
            /\ op' = Call("FetchPage", "frame", frame_id, NoFrame)
            /\ UNCHANGED <<pages, page_table, free_list, next_page_id, disk,
                           proc>>

\* lines 77-87: a frame from the free list
FetchPageFree(page_id) ==
  LET frame_id == Head(free_list)
  IN IF RecordAccessOverflows(replacer, frame_id)
     THEN /\ \E kind \in RelockOutcomes : Halt(kind, "FetchPage")
          /\ UNCHANGED <<pages, page_table, free_list, next_page_id, replacer,
                         disk>>
     ELSE \E rep \in RecordAccessSet(replacer, frame_id) :
            /\ free_list' = Tail(free_list)
            /\ replacer' = rep
            /\ page_table' = [page_table EXCEPT ![page_id] = frame_id]
            /\ pages' = ReadPageFromDisk(ResetPage(pages, frame_id, page_id, 1),
                                         frame_id, disk)
            /\ op' = Call("FetchPage", "frame", frame_id, NoFrame)
            /\ UNCHANGED <<next_page_id, disk, proc>>

\* lines 88-103: a victim from the replacer.  `page` is a reference to the
\* frame, so the erase of line 96 reads the page_id_ that line 95 has reset.
FetchPageEvict(page_id) ==
  LET i == EvictIndex(replacer.node_list)
      replaced_frame == replacer.node_list[i].fid
      page == pages[replaced_frame]
      rep1 == Evict(replacer)
      disk1 == WriteIfDirty(disk, page)
      pages1 == ResetPage(pages, replaced_frame, page_id, 0)
      table1 == Erase(page_table, pages1[replaced_frame].page_id)
  IN IF RecordAccessOverflows(rep1, replaced_frame)
     THEN /\ \E kind \in RelockOutcomes : Halt(kind, "FetchPage")
          /\ UNCHANGED <<pages, page_table, free_list, next_page_id, replacer,
                         disk>>
     ELSE \E rep \in RecordAccessSet(rep1, replaced_frame) :
            /\ disk' = disk1
            /\ page_table' = [table1 EXCEPT ![page_id] = replaced_frame]
            /\ pages' = ReadPageFromDisk(
                          [pages1 EXCEPT ![replaced_frame].pin_count = 1],
                          replaced_frame, disk1)
            /\ replacer' = rep
            /\ op' = Call("FetchPage", "frame", replaced_frame,
                          replaced_frame)
            /\ UNCHANGED <<free_list, next_page_id, proc>>

\* line 104
FetchPageFail(page_id) ==
  /\ op' = Call("FetchPage", "null", NoFrame, NoFrame)
  /\ UNCHANGED <<pages, page_table, free_list, next_page_id, replacer, disk,
                 proc>>

FetchPage(page_id) ==
  /\ Open
  /\ IF Resident(page_table, page_id) THEN CanRecord /\ FetchPageHit(page_id)
     ELSE IF free_list # <<>> THEN CanRecord /\ FetchPageFree(page_id)
     ELSE IF EvictIndex(replacer.node_list) # 0
          THEN CanRecord /\ FetchPageEvict(page_id)
     ELSE FetchPageFail(page_id)

\* ------------------------------------------------------------- UnpinPage
\* lines 110-123 when the page is resident and pinned
UnpinPageOk(page_id, is_dirty) ==
  LET frame_id == page_table[page_id]
      pin == pages[frame_id].pin_count - 1
  IN /\ pages' = [pages EXCEPT
                    ![frame_id].is_dirty = IF is_dirty THEN TRUE ELSE @,
                    ![frame_id].pin_count = pin]
     /\ replacer' = IF pin = 0 THEN SetEvictable(replacer, frame_id, TRUE)
                    ELSE replacer
     /\ op' = Call("UnpinPage", "true", frame_id, NoFrame)
     /\ UNCHANGED <<page_table, free_list, next_page_id, disk, proc>>

\* lines 113-115 and 125
UnpinPageFail(page_id, is_dirty) ==
  /\ op' = Call("UnpinPage", "false", NoFrame, NoFrame)
  /\ UNCHANGED <<pages, page_table, free_list, next_page_id, replacer, disk,
                 proc>>

\* UnpinPage without the test of lines 113-115
UnpinPageNoZeroTest(page_id, is_dirty) ==
  /\ Open
  /\ IF Resident(page_table, page_id)
     THEN UnpinPageOk(page_id, is_dirty)
     ELSE UnpinPageFail(page_id, is_dirty)

UnpinPage(page_id, is_dirty) ==
  /\ Open
  /\ IF Resident(page_table, page_id) /\ pages[page_table[page_id]].pin_count # 0
     THEN UnpinPageOk(page_id, is_dirty)
     ELSE UnpinPageFail(page_id, is_dirty)

\* ------------------------------------------------------------- FlushPage
FlushPage(page_id) ==
  /\ Open
  /\ IF Resident(page_table, page_id)
     THEN LET frame_id == page_table[page_id]
          IN /\ disk' = WritePageToDisk(disk, pages[frame_id])
             /\ pages' = [pages EXCEPT ![frame_id].is_dirty = FALSE]
             /\ op' = Call("FlushPage", "true", frame_id, NoFrame)
     ELSE /\ op' = Call("FlushPage", "false", NoFrame, NoFrame)
          /\ UNCHANGED <<pages, disk>>
  /\ UNCHANGED <<page_table, free_list, next_page_id, replacer, proc>>

\* --------------------------------------------------------- FlushAllPages
\* lines 141-146: latch_ is held when the loop calls FlushPage, which locks
\* latch_ at line 129; with an empty page table the loop body never runs.
FlushAllPages ==
  /\ Open
  /\ IF \E p \in PageIds : Resident(page_table, p)
     THEN \E kind \in RelockOutcomes : Halt(kind, "FlushAllPages")
     ELSE /\ op' = Call("FlushAllPages", "void", NoFrame, NoFrame)
          /\ UNCHANGED proc
  /\ UNCHANGED <<pages, page_table, free_list, next_page_id, replacer, disk>>

\* ------------------------------------------------------------ DeletePage
\* lines 157-164; the assertion of Remove fails after the write of line 158
DeletePageResident(page_id) ==
  LET frame_id == page_table[page_id]
      page == pages[frame_id]
  IN IF RemoveAsserts(replacer, frame_id)
     THEN /\ Halt("aborted", "DeletePage")
          /\ disk' = WriteIfDirty(disk, page)
          /\ UNCHANGED <<pages, page_table, free_list, next_page_id, replacer>>
     ELSE /\ disk' = WriteIfDirty(disk, page)
          /\ page_table' = Erase(page_table, page_id)
          /\ replacer' = Remove(replacer, frame_id)
          /\ pages' = ResetPage(pages, frame_id, INVALID_PAGE_ID, 0)
          /\ free_list' = Append(free_list, frame_id)
          /\ op' = Call("DeletePage", "true", frame_id, NoFrame)
          /\ UNCHANGED <<next_page_id, proc>>

\* lines 154-156 and 166
DeletePageRefused(page_id, ret) ==
  /\ op' = Call("DeletePage", ret, NoFrame, NoFrame)
  /\ UNCHANGED <<pages, page_table, free_list, next_page_id, replacer, disk,
                 proc>>

DeletePage(page_id) ==
  /\ Open
  /\ IF Resident(page_table, page_id)
     THEN IF pages[page_table[page_id]].pin_count # 0
          THEN DeletePageRefused(page_id, "false")
          ELSE DeletePageResident(page_id)
     ELSE DeletePageRefused(page_id, "false")

\* ------------------------------------------------------------- the caller
\* The holder of a pinned page writes its frame through Page::GetData().
WriteData(page_id, byte) ==
  /\ Open
  /\ Resident(page_table, page_id)
  /\ pages[page_table[page_id]].pin_count > 0
  /\ pages[page_table[page_id]].data # byte
  /\ pages' = [pages EXCEPT ![page_table[page_id]].data = byte]
  /\ op' = Call("WriteData", "none", page_table[page_id], NoFrame)
  /\ UNCHANGED <<page_table, free_list, next_page_id, replacer, disk, proc>>

\* ------------------------------------------------------------------ Next
Next ==
  \/ \E p \in PageIds : FetchPage(p) /\ UNCHANGED <<pool_size, round_trip, Apart>>
  \/ NewPage /\ UNCHANGED <<pool_size, round_trip, Apart>>
  \/ \E p \in PageIds, d \in BOOLEAN :
       UnpinPage(p, d) /\ UNCHANGED <<pool_size, round_trip, Apart>>
  \/ \E p \in PageIds : FlushPage(p) /\ UNCHANGED <<pool_size, round_trip, Apart>>
  \/ \E p \in PageIds : DeletePage(p) /\ UNCHANGED <<pool_size, round_trip, Apart>>

\* The pool operations called in any order, the frames never written.
Spec == Init /\ [][Next]_vars

\* The same operations in runs of at most ShortTime recorded accesses.
WithinShortTime == replacer'.current_timestamp <= ShortTime

NextShort ==
  \/ \E p \in PageIds :
       FetchPage(p) /\ WithinShortTime /\ UNCHANGED <<pool_size, round_trip, Apart>>
  \/ NewPage /\ WithinShortTime /\ UNCHANGED <<pool_size, round_trip, Apart>>
  \/ \E p \in PageIds, d \in BOOLEAN :
       UnpinPage(p, d) /\ UNCHANGED <<pool_size, round_trip, Apart>>
  \/ \E p \in PageIds : FlushPage(p) /\ UNCHANGED <<pool_size, round_trip, Apart>>
  \/ \E p \in PageIds : DeletePage(p) /\ UNCHANGED <<pool_size, round_trip, Apart>>

SpecShort == Init /\ [][NextShort]_vars

\* Short runs in which FlushAllPages is called as well.
NextFlushAll ==
  \/ NextShort
  \/ FlushAllPages /\ UNCHANGED <<pool_size, round_trip, Apart>>

SpecFlushAll == Init /\ [][NextFlushAll]_vars

\* ------------------------------------------------- round trips of contents
\* round_trip[p] follows page p: "unpinned" with the frame's contents when p
\* is unpinned dirty, "evicted" once the frame p is mapped to has been taken
\* as a victim, "none" again when that frame is written.
AfterUnpin(page_id, is_dirty) ==
  IF op'.ret = "true" /\ is_dirty
  THEN [round_trip EXCEPT ![page_id] =
          [stage |-> "unpinned", bytes |-> pages[page_table[page_id]].data]]
  ELSE round_trip

AfterEvict ==
  IF op'.victim # NoFrame
  THEN TripEvicted(round_trip, page_table, op'.victim)
  ELSE round_trip

AfterWrite(page_id) ==
  [p \in PageIds |->
     IF page_table[p] = page_table[page_id] THEN NoTrip ELSE round_trip[p]]

NextRT ==
  \/ NewPage /\ round_trip' = AfterEvict /\ UNCHANGED <<pool_size, Apart>>
  \/ \E p \in PageIds :
       FetchPage(p) /\ round_trip' = AfterEvict /\ UNCHANGED <<pool_size, Apart>>
  \/ \E p \in PageIds, d \in BOOLEAN :
       UnpinPage(p, d) /\ round_trip' = AfterUnpin(p, d) /\ UNCHANGED <<pool_size, Apart>>
  \/ \E p \in PageIds, b \in Bytes :
       WriteData(p, b) /\ round_trip' = AfterWrite(p) /\ UNCHANGED <<pool_size, Apart>>

\* NewPage, FetchPage and UnpinPage with callers that write the frames they
\* have pinned: the operations of the round-trip law.
SpecRT == Init /\ [][NextRT]_vars

\* ------------------------------------------------------ the replacer alone
\* LRUKReplacer(num_frames, k) called by one thread; pool_size stands for
\* num_frames (replacer_size_).
InitReplacer ==
  /\ pool_size \in 1 .. MaxReplacerSize
  /\ k_ \in 1 .. MaxK
  /\ InitPool
  /\ scheduler = NoScheduler
  /\ threads = NoThreads

\* lines 36-58.  At line 55 the node is in the list and the timestamp is
\* incremented; Evict then locks latch_, which this thread holds.
ReplacerRecordAccess(frame_id) ==
  /\ Open
  /\ replacer.current_timestamp < MaxAccess
  /\ \E rep \in RecordAccessSet(replacer, frame_id) :
       /\ replacer' = rep
       /\ IF RecordAccessOverflows(replacer, frame_id)
          THEN \E kind \in RelockOutcomes : Halt(kind, "RecordAccess")
          ELSE /\ op' = Call("RecordAccess", "void", frame_id, NoFrame)
               /\ UNCHANGED proc

\* lines 60-74
ReplacerSetEvictable(frame_id, set_evictable) ==
  /\ Open
  /\ replacer' = SetEvictable(replacer, frame_id, set_evictable)
  /\ op' = Call("SetEvictable", "void", frame_id, NoFrame)
  /\ UNCHANGED proc

\* lines 20-34
ReplacerEvict ==
  /\ Open
  /\ LET i == EvictIndex(replacer.node_list)
     IN IF i = 0
        THEN /\ op' = Call("Evict", "false", NoFrame, NoFrame)
             /\ UNCHANGED replacer
        ELSE /\ replacer' = Evict(replacer)
             /\ op' = Call("Evict", "true", replacer.node_list[i].fid,
                           replacer.node_list[i].fid)
  /\ UNCHANGED proc

\* lines 76-86
ReplacerRemove(frame_id) ==
  /\ Open
  /\ IF RemoveAsserts(replacer, frame_id)
     THEN Halt("aborted", "Remove") /\ UNCHANGED replacer
     ELSE /\ replacer' = Remove(replacer, frame_id)
          /\ op' = Call("Remove", "void", frame_id, NoFrame)
          /\ UNCHANGED proc

\* line 88
Size(rep) == rep.curr_size

\* what the replacer's operations leave alone
Pool == <<pool_size, pages, page_table, free_list, next_page_id, disk,
          round_trip, k_, scheduler, threads>>

NextReplacer ==
  \/ \E f \in FrameIds : ReplacerRecordAccess(f) /\ UNCHANGED Pool
  \/ \E f \in FrameIds, b \in BOOLEAN :
       ReplacerSetEvictable(f, b) /\ UNCHANGED Pool
  \/ ReplacerEvict /\ UNCHANGED Pool
  \/ \E f \in FrameIds : ReplacerRemove(f) /\ UNCHANGED Pool

SpecReplacer == InitReplacer /\ [][NextReplacer]_vars

\* ------------------------------------------- threads that share a replacer
\* Each thread calls the replacer's operations directly.  latch_ is 0 when
\* free, else the thread that holds it; a thread is "idle" between calls,
\* inside a call at the name of the call (latch_ taken, body not yet run),
\* and in Evict and Size at the accesses of curr_size_ outside the latch.
Threads == 1 .. MaxThreads

NoArg == [frame |-> NoFrame, flag |-> FALSE]

InitThreads ==
  /\ pool_size \in 1 .. MaxReplacerSize
  /\ k_ \in 1 .. MaxK
  /\ InitPool
  /\ scheduler = NoScheduler
  /\ threads = [latch |-> 0, pc |-> [t \in Threads |-> "idle"],
                arg |-> [t \in Threads |-> NoArg],
                loaded |-> [t \in Threads |-> 0]]

\* latch_.unlock() and the return of the call
Unlocked(t, pc) ==
  [threads EXCEPT !.latch = 0, !.pc[t] = pc, !.arg[t] = NoArg]

\* latch_.lock() at lines 21, 37, 61 and 77: blocks while the latch is held
ThreadLock(t, name, frame_id, flag) ==
  /\ Open
  /\ threads.pc[t] = "idle"
  /\ threads.latch = 0
  /\ name = "RecordAccess" => replacer.current_timestamp < ThreadAccess
  /\ threads' = [threads EXCEPT !.latch = t, !.pc[t] = name,
                                !.arg[t] = [frame |-> frame_id, flag |-> flag]]
  /\ UNCHANGED <<replacer, proc, op>>

\* RecordAccess lines 38-57
ThreadRecordAccess(t) ==
  /\ Open
  /\ threads.pc[t] = "RecordAccess"
  /\ \E rep \in RecordAccessSet(replacer, threads.arg[t].frame) :
       /\ replacer' = rep
       /\ IF RecordAccessOverflows(replacer, threads.arg[t].frame)
          THEN /\ \E kind \in RelockOutcomes : Halt(kind, "RecordAccess")
               /\ UNCHANGED threads
          ELSE /\ threads' = Unlocked(t, "idle")
               /\ UNCHANGED <<proc, op>>

\* SetEvictable lines 62-73
ThreadSetEvictable(t) ==
  /\ Open
  /\ threads.pc[t] = "SetEvictable"
  /\ replacer' = SetEvictable(replacer, threads.arg[t].frame, threads.arg[t].flag)
  /\ threads' = Unlocked(t, "idle")
  /\ UNCHANGED <<proc, op>>

\* Remove lines 78-85
ThreadRemove(t) ==
  /\ Open
  /\ threads.pc[t] = "Remove"
  /\ IF RemoveAsserts(replacer, threads.arg[t].frame)
     THEN Halt("aborted", "Remove") /\ UNCHANGED <<replacer, threads>>
     ELSE /\ replacer' = Remove(replacer, threads.arg[t].frame)
          /\ threads' = Unlocked(t, "idle")
          /\ UNCHANGED <<proc, op>>

\* Evict lines 22-27 and 32: the scan, the erase and the unlock; curr_size_
\* is decremented at line 28, after the unlock.
ThreadEvictScan(t) ==
  /\ Open
  /\ threads.pc[t] = "Evict"
  /\ LET i == EvictIndex(replacer.node_list)
     IN IF i = 0
        THEN /\ threads' = Unlocked(t, "idle")
             /\ UNCHANGED replacer
        ELSE /\ replacer' = [replacer EXCEPT !.node_list = RemoveAt(@, i)]
             /\ threads' = Unlocked(t, "evict_load")
  /\ UNCHANGED <<proc, op>>

\* line 28, curr_size_--: the load
ThreadEvictLoad(t) ==
  /\ Open
  /\ threads.pc[t] = "evict_load"
  /\ threads' = [threads EXCEPT !.loaded[t] = replacer.curr_size,
                                !.pc[t] = "evict_store"]
  /\ UNCHANGED <<replacer, proc, op>>

\* line 28, curr_size_--: the store.  curr_size_ is a size_t: a value below 0
\* stands for the value wrapped around.
ThreadEvictStore(t) ==
  /\ Open
  /\ threads.pc[t] = "evict_store"
  /\ replacer' = [replacer EXCEPT !.curr_size = threads.loaded[t] - 1]
  /\ threads' = [threads EXCEPT !.loaded[t] = 0, !.pc[t] = "idle"]
  /\ UNCHANGED <<proc, op>>

\* line 88: Size() is entered without the latch and reads curr_size_
ThreadSizeCall(t) ==
  /\ Open
  /\ threads.pc[t] = "idle"
  /\ threads' = [threads EXCEPT !.pc[t] = "size_read"]
  /\ UNCHANGED <<replacer, proc, op>>

ThreadSizeRead(t) ==
  /\ Open
  /\ threads.pc[t] = "size_read"
  /\ threads' = [threads EXCEPT !.pc[t] = "idle"]
  /\ UNCHANGED <<replacer, proc, op>>

\* what the threads in the replacer leave alone
PoolAndDisk == <<pool_size, pages, page_table, free_list, next_page_id, disk,
                 round_trip, k_, scheduler>>

NextThreads ==
  \/ \E t \in Threads, f \in FrameIds :
       ThreadLock(t, "RecordAccess", f, FALSE) /\ UNCHANGED PoolAndDisk
  \/ \E t \in Threads, f \in FrameIds, b \in BOOLEAN :
       ThreadLock(t, "SetEvictable", f, b) /\ UNCHANGED PoolAndDisk
  \/ \E t \in Threads, f \in FrameIds :
       ThreadLock(t, "Remove", f, FALSE) /\ UNCHANGED PoolAndDisk
  \/ \E t \in Threads :
       ThreadLock(t, "Evict", NoFrame, FALSE) /\ UNCHANGED PoolAndDisk
  \/ \E t \in Threads : ThreadRecordAccess(t) /\ UNCHANGED PoolAndDisk
  \/ \E t \in Threads : ThreadSetEvictable(t) /\ UNCHANGED PoolAndDisk
  \/ \E t \in Threads : ThreadRemove(t) /\ UNCHANGED PoolAndDisk
  \/ \E t \in Threads : ThreadEvictScan(t) /\ UNCHANGED PoolAndDisk
  \/ \E t \in Threads : ThreadEvictLoad(t) /\ UNCHANGED PoolAndDisk
  \/ \E t \in Threads : ThreadEvictStore(t) /\ UNCHANGED PoolAndDisk
  \/ \E t \in Threads : ThreadSizeCall(t) /\ UNCHANGED PoolAndDisk
  \/ \E t \in Threads : ThreadSizeRead(t) /\ UNCHANGED PoolAndDisk

SpecThreads == InitThreads /\ [][NextThreads]_vars

\* ---------------------------------------------------- the disk scheduler
\* scheduler.requests holds the requests in the order Schedule enqueued them; a
\* request is named by its position there.  queue is request_queue_: request
\* numbers, 0 for std::nullopt.  worker is the position of the background
\* thread ("get", "io", "signal", "exited") and current the request it holds;
\* performed[r] and fired[r] count the block operations done for r and the
\* set_value calls on its promise.  destructor is "alive", "joining" (the
\* sentinel is enqueued) or "destroyed".
Sentinel == 0

InitDisk ==
  /\ pool_size = MaxPoolSize
  /\ k_ = replacer_k
  /\ InitPool
  /\ scheduler = NoScheduler
  /\ threads = NoThreads

\* Channel::Put
Put(queue, element) == Append(queue, element)

\* Put that leaves the element at the head of the queue
PutFirst(queue, element) == <<element>> \o queue

DiskRequest(is_write, page_id, data) ==
  [is_write |-> is_write, page_id |-> page_id, data |-> data]

\* Schedule that enqueues with PutFirst
ScheduleFirst(r) ==
  /\ scheduler.destructor = "alive"
  /\ Len(scheduler.requests) < MaxRequests
  /\ scheduler' = [scheduler EXCEPT
       !.requests = Append(@, r),
       !.performed = Append(@, 0),
       !.fired = Append(@, 0),
       !.queue = PutFirst(@, Len(scheduler.requests) + 1)]
  /\ UNCHANGED disk

\* lines 32-34, called while the scheduler is not being destroyed
Schedule(r) ==
  /\ scheduler.destructor = "alive"
  /\ Len(scheduler.requests) < MaxRequests
  /\ scheduler' = [scheduler EXCEPT
       !.requests = Append(@, r),
       !.performed = Append(@, 0),
       !.fired = Append(@, 0),
       !.queue = Put(@, Len(scheduler.requests) + 1)]
  /\ UNCHANGED disk

\* lines 38-39 and 46-48: Get blocks on an empty queue; nullopt ends the loop
WorkerGet ==
  /\ scheduler.worker = "get"
  /\ scheduler.queue # <<>>
  /\ LET r == Head(scheduler.queue)
     IN scheduler' = [scheduler EXCEPT
          !.queue = Tail(@),
          !.worker = IF r = Sentinel THEN "exited" ELSE "io",
          !.current = r]
  /\ UNCHANGED disk

\* lines 40-44: WritePage stores r->data_ under r->page_id_, ReadPage fills
\* the buffer r->data_ points to
WorkerIO ==
  /\ scheduler.worker = "io"
  /\ LET id == scheduler.current
         r == scheduler.requests[id]
     IN IF r.is_write
        THEN /\ disk' = [disk EXCEPT ![r.page_id] = r.data]
             /\ scheduler' = [scheduler EXCEPT
                  !.performed[id] = @ + 1, !.worker = "signal"]
        ELSE /\ scheduler' = [scheduler EXCEPT
                  !.requests[id].data = disk[r.page_id],
                  !.performed[id] = @ + 1, !.worker = "signal"]
             /\ UNCHANGED disk

\* a worker that fires the completion signal of writes only
WorkerSignalWrites ==
  /\ scheduler.worker = "signal"
  /\ scheduler' = [scheduler EXCEPT
       !.fired[scheduler.current] =
          IF scheduler.requests[scheduler.current].is_write THEN @ + 1 ELSE @,
       !.worker = "get", !.current = 0]
  /\ UNCHANGED disk

\* line 45: r->callback_.set_value(true)
WorkerSignal ==
  /\ scheduler.worker = "signal"
  /\ scheduler' = [scheduler EXCEPT
       !.fired[scheduler.current] = @ + 1, !.worker = "get", !.current = 0]
  /\ UNCHANGED disk

\* line 26
DestructorPut ==
  /\ scheduler.destructor = "alive"
  /\ scheduler' = [scheduler EXCEPT
       !.queue = Put(@, Sentinel), !.destructor = "joining"]
  /\ UNCHANGED disk

\* lines 27-29: join returns when the worker has left its loop
DestructorJoin ==
  /\ scheduler.destructor = "joining"
  /\ scheduler.worker = "exited"
  /\ scheduler' = [scheduler EXCEPT !.destructor = "destroyed"]
  /\ UNCHANGED disk

\* what the scheduler and its worker leave alone
PoolAndReplacer == <<pool_size, pages, page_table, free_list, next_page_id,
                     replacer, proc, op, round_trip, k_, threads>>

Worker == (WorkerGet \/ WorkerIO \/ WorkerSignal) /\ UNCHANGED PoolAndReplacer

Join == DestructorJoin /\ UNCHANGED PoolAndReplacer

NextDisk ==
  \/ \E p \in PageIds, b \in Bytes :
       Schedule(DiskRequest(TRUE, p, b)) /\ UNCHANGED PoolAndReplacer
  \/ \E p \in PageIds :
       Schedule(DiskRequest(FALSE, p, 0)) /\ UNCHANGED PoolAndReplacer
  \/ WorkerGet /\ UNCHANGED PoolAndReplacer
  \/ WorkerIO /\ UNCHANGED PoolAndReplacer
  \/ WorkerSignal /\ UNCHANGED PoolAndReplacer
  \/ DestructorPut /\ UNCHANGED PoolAndReplacer
  \/ DestructorJoin /\ UNCHANGED PoolAndReplacer

\* The worker thread and the thread inside join are scheduled fairly.
SpecDisk ==
  InitDisk /\ [][NextDisk]_vars /\ WF_vars(Worker) /\ WF_vars(Join)

\* ---------------------------------------------------------------- claims
ResidentPages == {p \in PageIds : Resident(page_table, p)}

PoolState == <<pages, page_table, free_list, replacer>>

AllPinned == \A f \in Frames : pages[f].pin_count > 0

\* C1: after any sequence of completed calls the number of page-table
\* entries plus the number of free-list entries equals pool_size.
C1_TableAndFreeListFillPool ==
  Cardinality(ResidentPages) + Len(free_list) = pool_size

\* C2: the page table is injective: no two distinct page ids are mapped to
\* the same frame id.
C2_PageTableInjective ==
  \A p, q \in ResidentPages : p # q => page_table[p] # page_table[q]

\* C3: for every entry P -> f of the page table the page_id of frame f is P,
\* and NewPage and FetchPage never alter the page_id of a frame other than
\* the one they selected.
C3_FramePageIdIsKey ==
  /\ [](\A p \in ResidentPages : pages[page_table[p]].page_id = p)
  /\ [][(op'.name \in {"NewPage", "FetchPage"} /\ op'.ret = "frame") =>
          \A f \in Frames \ {op'.frame} : pages'[f].page_id = pages[f].page_id]_vars

\* C4: a frame whose pin_count is greater than 0 is not marked evictable in
\* the replacer, and the victim Evict chooses inside NewPage or FetchPage
\* has pin_count 0.
C4_PinnedNeverEvicted ==
  /\ [](\A f \in Frames : pages[f].pin_count > 0 => ~IsEvictable(replacer, f))
  /\ [][op'.victim # NoFrame => pages[op'.victim].pin_count = 0]_vars

\* C5: once P was unpinned dirty with contents B and its frame was evicted,
\* every FetchPage(P) that returns a frame returns one holding B, unless the
\* frame was written in between.
C5_RoundTrip ==
  [][\A p \in PageIds :
       (op'.name = "FetchPage" /\ op'.ret = "frame"
          /\ round_trip[p].stage = "evicted" /\ FetchPage(p)) =>
         pages'[op'.frame].data = round_trip[p].bytes]_vars

\* C6: every FetchPage that returns a frame, a cache hit included, raises
\* the frame's pin_count by exactly 1.
C6_FetchIncrementsPin ==
  [][(op'.name = "FetchPage" /\ op'.ret = "frame") =>
       pages'[op'.frame].pin_count = pages[op'.frame].pin_count + 1]_vars

\* C7: UnpinPage(P, d) returns false and changes nothing when P is not
\* resident or its frame's pin_count is 0; otherwise it returns true, lowers
\* the pin_count by exactly 1 and the frame is evictable in the replacer
\* exactly when the pin_count has reached 0.
C7_UnpinPage ==
  [][\A p \in PageIds, d \in BOOLEAN : (op'.name = "UnpinPage" /\ UnpinPage(p, d)) =>
       IF ~Resident(page_table, p) \/ pages[page_table[p]].pin_count = 0
       THEN op'.ret = "false" /\ UNCHANGED PoolState
       ELSE LET f == page_table[p]
            IN /\ op'.ret = "true"
               /\ pages'[f].pin_count = pages[f].pin_count - 1
               /\ IsEvictable(replacer', f) <=> (pages'[f].pin_count = 0)
               /\ UNCHANGED <<page_table, free_list>>]_vars

\* C7 witness: an unpin returned true and left its frame at 0, evictable.
C7_Witness ==
  /\ op.name = "UnpinPage"
  /\ op.ret = "true"
  /\ pages[op.frame].pin_count = 0
  /\ IsEvictable(replacer, op.frame)

\* C8: the dirty bit of a resident frame is cleared by no UnpinPage: only by
\* FlushPage, or by the reset of the frame when it is evicted or deleted.
C8_DirtySticky ==
  [][\A f \in Frames :
       ((\E p \in ResidentPages : page_table[p] = f)
         /\ pages[f].is_dirty /\ ~pages'[f].is_dirty) =>
           \/ op'.name = "FlushPage"
           \/ op'.name = "DeletePage" /\ op'.ret = "true" /\ op'.frame = f
           \/ op'.name \in {"NewPage", "FetchPage"} /\ op'.victim = f]_vars

\* C9: DeletePage(P) of a page that is not resident returns true and leaves
\* the page table, the free list, the frames and the replacer as they were.
C9_DeleteAbsent ==
  [][\A p \in PageIds :
       (op'.name = "DeletePage" /\ ~Resident(page_table, p) /\ DeletePage(p)) =>
       op'.ret = "true" /\ UNCHANGED PoolState]_vars

\* C10: with the free list empty and every frame pinned, NewPage and the
\* FetchPage of a page that is not resident return null and leave the page
\* table, free list, frames, replacer and next page id as they were.
C10_ExhaustedPool ==
  [][(free_list = <<>> /\ AllPinned) =>
       /\ (op'.name = "NewPage" /\ NewPage) =>
            op'.ret = "null" /\ UNCHANGED <<PoolState, next_page_id>>
       /\ \A p \in PageIds :
            (op'.name = "FetchPage" /\ ~Resident(page_table, p) /\ FetchPage(p)) =>
              op'.ret = "null" /\ UNCHANGED <<PoolState, next_page_id>>]_vars

\* C11: FlushAllPages returns in every state it is called in, and when it has
\* returned every resident page is on disk and its dirty bit is cleared.
C11_FlushAllReturns ==
  [][op'.name = "FlushAllPages" =>
       /\ proc' = "running"
       /\ \A p \in PageIds : Resident(page_table', p) =>
            /\ ~pages'[page_table'[p]].is_dirty
            /\ disk'[p] = pages'[page_table'[p]].data]_vars
\* The nodes of the replacer and those of them that are evictable.
Nodes == {replacer.node_list[i] : i \in 1 .. Len(replacer.node_list)}

EvictableNodes == {n \in Nodes : n.evictable}

\* Eviction priority: a is evicted before b.
PriorityBefore(a, b) ==
  \/ Len(a.hist) < k_ /\ Len(b.hist) < k_ /\ a.hist[1] < b.hist[1]
  \/ Len(a.hist) < k_ /\ Len(b.hist) >= k_
  \/ /\ Len(a.hist) >= k_ /\ Len(b.hist) >= k_
     /\ a.hist[Len(a.hist) - k_ + 1] < b.hist[Len(b.hist) - k_ + 1]

\* C12: the node sequence is sorted by eviction priority whenever an
\* operation has returned, and Evict returns the evictable frame of highest
\* priority: fewer than K accesses and the oldest earliest access if there is
\* one, otherwise the smallest K-th most recent access.
C12_EvictOrder ==
  /\ [](\A i, j \in 1 .. Len(replacer.node_list) :
          i < j => PriorityBefore(replacer.node_list[i], replacer.node_list[j]))
  /\ [][op'.name = "Evict" =>
          IF EvictableNodes = {} THEN op'.ret = "false"
          ELSE /\ op'.ret = "true"
               /\ \E v \in EvictableNodes :
                    /\ v.fid = op'.frame
                    /\ \A n \in EvictableNodes \ {v} : PriorityBefore(v, n)]_vars

\* C12 witness: Evict has returned a frame and left behind an evictable
\* node with K accesses next to one with fewer.
C12_Witness ==
  /\ op.name = "Evict"
  /\ op.ret = "true"
  /\ \E a, b \in EvictableNodes : Len(a.hist) < k_ /\ Len(b.hist) >= k_

\* The replacer with K = 2 after accesses to A, B, A, C at timestamps 0 .. 3
\* and SetEvictable(true) on the three, of which the frames in S are left.
ScenarioNode(frame_id, hist) ==
  [fid |-> frame_id, hist |-> hist, evictable |-> TRUE]

AfterFourAccesses == k_ = 2 /\ replacer.current_timestamp = 4

InScenario(A, B, C, S) ==
  /\ AfterFourAccesses
  /\ Nodes = {n \in {ScenarioNode(A, <<0, 2>>), ScenarioNode(B, <<1>>),
                      ScenarioNode(C, <<3>>)} : n.fid \in S}

Distinct(A, B, C) == A # B /\ B # C /\ A # C

\* C13 as stated: with K = 2, after accesses to A, B, A, C and SetEvictable
\* on all three, three successive Evict calls return C, then B, then A.
C13_EvictsCBA ==
  [][(op'.name = "Evict" /\ AfterFourAccesses) =>
     \A A, B, C \in FrameIds : Distinct(A, B, C) =>
       /\ InScenario(A, B, C, {A, B, C}) => op'.frame = C
       /\ InScenario(A, B, C, {A, B}) => op'.frame = B
       /\ InScenario(A, B, C, {A}) => op'.frame = A]_vars

\* C13 amended: the three successive Evict calls return B, then C, then A.
C13_EvictsBCA ==
  [][(op'.name = "Evict" /\ AfterFourAccesses) =>
     \A A, B, C \in FrameIds : Distinct(A, B, C) =>
       /\ InScenario(A, B, C, {A, B, C}) => op'.frame = B
       /\ InScenario(A, B, C, {A, C}) => op'.frame = C
       /\ InScenario(A, B, C, {A}) => op'.frame = A]_vars

\* C13 witness: the second Evict of the scenario has returned C and left A.
C13_Witness ==
  \E A, B, C \in FrameIds :
    /\ Distinct(A, B, C)
    /\ InScenario(A, B, C, {A})
    /\ op.name = "Evict"
    /\ op.frame = C

\* C14: after any sequence of RecordAccess, SetEvictable, Evict and Remove
\* calls of one thread Size() is the number of tracked nodes that are
\* evictable; SetEvictable(f, true) twice counts f once.
C14_SizeCountsEvictable ==
  Size(replacer) =
    Cardinality({i \in 1 .. Len(replacer.node_list) : replacer.node_list[i].evictable})

\* C14 witness: SetEvictable has returned for a frame that is evictable
\* while another frame is evictable too.
C14_Witness ==
  /\ op.name = "SetEvictable"
  /\ IsEvictable(replacer, op.frame)
  /\ Size(replacer) >= 2

\* C18: a RecordAccess that makes the number of tracked nodes exceed
\* replacer_size evicts a node and returns with the latch free.
C18_OverflowEvicts ==
  [][\A f \in FrameIds :
       (op'.name = "RecordAccess" /\ RecordAccessOverflows(replacer, f)
          /\ ReplacerRecordAccess(f)) =>
         /\ proc' = "running"
         /\ Len(replacer'.node_list) <= replacer_size]_vars
\* The positions at which a thread's next step reads or writes curr_size_.
AccessesSize ==
  {"SetEvictable", "Remove", "evict_load", "evict_store", "size_read"}

\* No update of curr_size has been lost when every thread is between calls.
NoLostUpdate ==
  (\A t \in Threads : threads.pc[t] = "idle") =>
    replacer.curr_size = Cardinality(EvictableNodes)

\* C19: under any interleaving of threads calling the replacer, curr_size is
\* read and updated only by the holder of the latch, and whenever no
\* operation is in progress curr_size is the number of evictable nodes.
C19_SizeUnderLatch ==
  /\ \A t \in Threads :
       threads.pc[t] \in AccessesSize => threads.latch = t
  /\ NoLostUpdate
\* C17: when NewPage or FetchPage evicts a dirty frame, the frame's bytes are
\* written to disk under the page id the page table mapped to the frame, no
\* other page is written, and exactly that page id's mapping is erased.
C17_DirtyVictimWrittenBack ==
  [][(op'.victim # NoFrame /\ pages[op'.victim].is_dirty) =>
       LET v == op'.victim
           mapped == {p \in PageIds : page_table[p] = v}
           installed == pages'[v].page_id
       IN /\ \A p \in mapped : disk'[p] = pages[v].data
          /\ \A p \in PageIds \ mapped : disk'[p] = disk[p]
          /\ \A p \in PageIds \ {installed} :
               page_table'[p] = IF p \in mapped THEN NoFrame ELSE page_table[p]]_vars

\* C20: DeletePage never fails the assertion of Remove: a resident page with
\* pin_count 0 sits in a frame that the replacer does not track or tracks
\* as evictable.
C20_DeleteNeverAsserts ==
  /\ \A p \in ResidentPages :
       pages[page_table[p]].pin_count = 0 => ~RemoveAsserts(replacer, page_table[p])
  /\ op.name = "DeletePage" => proc = "running"
\* The requests scheduled so far, in the order they were enqueued.
Scheduled == 1 .. Len(scheduler.requests)

\* C15: the worker performs the block operations in the order the requests
\* were enqueued: when the operation of B has started, the operation of
\* every A enqueued before B is done and A's completion signal is fired.
C15_DiskFifo ==
  \A a, b \in Scheduled :
    (a < b /\ (scheduler.performed[b] > 0
                \/ (scheduler.current = b /\ scheduler.worker = "io"))) =>
      scheduler.performed[a] = 1 /\ scheduler.fired[a] = 1

\* C15 witness: the second request is with the worker, about to be
\* performed, and the first has been signalled.
C15_Witness ==
  /\ scheduler.current = 2
  /\ scheduler.worker = "io"
  /\ scheduler.fired[1] = 1
  /\ Len(scheduler.requests) = MaxRequests

\* C16: with the worker scheduled fairly every request enqueued before the
\* destruction has its completion signal fired, and fired once; the worker
\* leaves its loop only when every request enqueued ahead of the sentinel is
\* processed; the destructor then returns.
C16_Shutdown ==
  /\ \A r \in 1 .. MaxRequests :
       (r \in Scheduled) ~> (r \in Scheduled /\ scheduler.fired[r] = 1)
  /\ [](\A r \in Scheduled : scheduler.fired[r] <= 1)
  /\ [](scheduler.worker = "exited" =>
          \A r \in Scheduled :
            scheduler.performed[r] = 1 /\ scheduler.fired[r] = 1)
  /\ (scheduler.destructor = "joining") ~> (scheduler.destructor = "destroyed")
  /\ [](scheduler.destructor = "destroyed" => scheduler.worker = "exited")

\* C16 witness: the destructor has returned after the worker processed every
\* request, a read among them.
C16_Witness ==
  /\ scheduler.destructor = "destroyed"
  /\ Len(scheduler.requests) = MaxRequests
  /\ \E r \in Scheduled : ~scheduler.requests[r].is_write

====
